---- MODULE Spec2Model ----
(***************************************************************************)
(* The crop-interval state machine of VideoEditorTimeline.tsx.             *)
(*                                                                         *)
(* Times are integers counted in ticks, TicksPerSecond ticks to a second,  *)
(* so that every value the component computes (1.0, D - 1.0, 0.75 * D and  *)
(* position * D for the pointer positions drawn here) is exact.            *)
(*                                                                         *)
(* The component is a React function component: every render creates new   *)
(* handler functions that close over the state values of that render.      *)
(* Handlers bound through JSX (onClick, onMouseDown, onDoubleClick) are    *)
(* those of the latest render; the document listeners installed by         *)
(* handleMarkerMouseDown are those of the render in which the pointer went *)
(* down, and keep that render's videoDuration, cropStartTime, cropEndTime. *)
(* A state change is rendered before the next event is handled.            *)
(*                                                                         *)
(* What a handler sends out (assignments to videoRef.current.currentTime,  *)
(* calls of Streamlit.setComponentValue) is never read back by the         *)
(* component; it is recorded in lastEvent, the record of the last event.   *)
(***************************************************************************)
EXTENDS Integers, Sequences, FiniteSets

\* ---------------------------------------------------------------- bounds
\* The timeline's width in pixels when it is laid out (it is 0 when it is not).
TimelineWidth == 2
\* The most document listeners of one kind the model lets pile up.
MaxListeners == 2
\* The longest frame_data or waveform_data array the host supplies.
MaxSamples == 2
\* The longest video, in whole seconds, the count computations are followed for.
MaxMetaDuration == 1000

\* Durations (whole seconds) a loaded video may report.
Durations == {1, 10, 120}
\* getBoundingClientRect().width and .left of the timeline, and clientX.
Widths == {0, TimelineWidth}
Lefts == {0, 1}
ClientXs == (0 - 1) .. (TimelineWidth + 1)

TicksPerSecond == 4 * TimelineWidth

\* The result of 0 / 0 in the position computation; no time is negative.
NaN == 0 - 1

\* Durations (whole seconds) for the thumbnail and waveform counts.
MetaDurations == 1..MaxMetaDuration

\* args.frame_data / args.waveform_data: absent, or an array of some length.
ArgData ==
  {[present |-> FALSE, length |-> 0]} \cup
  {[present |-> TRUE, length |-> n] : n \in 0..MaxSamples}

Markers == {"start", "end"}
NoMarker == "null"

VARIABLES
  cropMode,               \* useState(false)
  cropStartTime,          \* useState(0), ticks
  cropEndTime,            \* useState(0), ticks
  videoDuration,          \* useState(0), ticks
  dynamicThumbnailCount,  \* useState(100)
  dynamicWaveformCount,   \* useState(100)
  isDraggingRef,          \* useRef(false)
  activeMarkerRef,        \* useRef(null)
  metadataLoaded,         \* whether the video has fired loadedmetadata
  render,                 \* identity of the latest render's handler functions
  mousemoveListeners,     \* document's mousemove listeners, in registration order
  mouseupListeners,       \* document's mouseup listeners, in registration order
  lastEvent               \* what the last handled event was and did

vars == <<cropMode, cropStartTime, cropEndTime, videoDuration,
          dynamicThumbnailCount, dynamicWaveformCount, isDraggingRef,
          activeMarkerRef, metadataLoaded, render,
          mousemoveListeners, mouseupListeners, lastEvent>>

reactState == <<cropMode, cropStartTime, cropEndTime, videoDuration,
                dynamicThumbnailCount, dynamicWaveformCount>>

\* ---------------------------------------------------------------- helpers
MathMax(a, b) == IF a >= b THEN a ELSE b
MathMin(a, b) == IF a <= b THEN a ELSE b

\* Math.ceil(a / b) for a >= 0, b > 0.
MathCeilDiv(a, b) == (a + b - 1) \div b

\* a < b and a > b as JavaScript compares numbers: false when either is NaN.
LessThan(a, b) == a # NaN /\ b # NaN /\ a < b
GreaterThan(a, b) == a # NaN /\ b # NaN /\ a > b

\* The record of an event: its kind, the marker it named, the candidates the
\* drag handlers derived (each with whether it was accepted), the values it
\* assigned to videoRef.current.currentTime, how many mousemove listeners a
\* pointer-up removed, and the values it passed to Streamlit.setComponentValue.
Event(type, marker, drags, seeks, removed, emits) ==
  [type |-> type, marker |-> marker, drags |-> drags, seeks |-> seeks,
   removed |-> removed, emits |-> emits]

ListenerIds(listeners) == {listeners[i].id : i \in 1..Len(listeners)}

\* The identity of the handlers a new render creates: distinct from every
\* function still registered on the document (identities are only ever
\* compared for equality, so the least unused one stands for "a new one").
NewRender(moveL, upL) ==
  CHOOSE n \in 0..(Len(moveL) + Len(upL)) :
    /\ n \notin ListenerIds(moveL) \cup ListenerIds(upL)
    /\ \A m \in 0..(n - 1) : m \in ListenerIds(moveL) \cup ListenerIds(upL)

\* The handler functions of the latest render, with the state they close over.
Closure ==
  [id |-> render, videoDuration |-> videoDuration,
   cropStartTime |-> cropStartTime, cropEndTime |-> cropEndTime]

\* document.addEventListener: a function already registered is not added again.
AddEventListener(listeners, c) ==
  IF c.id \in ListenerIds(listeners) THEN listeners ELSE Append(listeners, c)

\* document.removeEventListener of the function with identity id.
RemoveEventListener(listeners, id) ==
  SelectSeq(listeners, LAMBDA c : c.id # id)

\* ------------------------------------------------ coordinate -> time mapping
\* position = (clientX - left) / width, then Math.max(0, Math.min(1, position)),
\* as a fraction num / den. A width of 0 divides by zero: a positive offset gives
\* +Infinity, clamped to 1; a negative one -Infinity, clamped to 0; and 0 / 0 is
\* NaN, which both Math.min and Math.max hand on (den = 0 stands for it).
Position(clientX, left, width) ==
  LET offset == clientX - left
  IN  IF width = 0
      THEN IF offset > 0 THEN [num |-> 1, den |-> 1]
           ELSE IF offset < 0 THEN [num |-> 0, den |-> 1]
           ELSE [num |-> 0, den |-> 0]
      ELSE [num |-> MathMax(0, MathMin(width, offset)), den |-> width]

\* newTime = position * videoDuration (exact: a duration is a whole number of
\* seconds and TicksPerSecond is a multiple of the timeline's width).
NewTime(clientX, left, width, duration) ==
  LET position == Position(clientX, left, width)
  IN  IF position.den = 0 THEN NaN
      ELSE (position.num * duration) \div position.den

\* ------------------------------------------------------- handleMarkerDrag
\* A faulty handleMarkerDrag: the seek is done before the accept test.
handleMarkerDragSeeksOnReject(c, clientX, left, width, acc) ==
  IF ~isDraggingRef \/ activeMarkerRef = NoMarker
  THEN acc
  ELSE
    LET newTime == NewTime(clientX, left, width, c.videoDuration)
        sought == [acc EXCEPT !.seeks = Append(@, newTime)]
    IN  IF activeMarkerRef = "start"
        THEN IF LessThan(newTime, c.cropEndTime)
             THEN [sought EXCEPT !.start = newTime,
                     !.drags = Append(@, [time |-> newTime, accepted |-> TRUE])]
             ELSE [sought EXCEPT
                     !.drags = Append(@, [time |-> newTime, accepted |-> FALSE])]
        ELSE IF GreaterThan(newTime, c.cropStartTime)
             THEN [sought EXCEPT !.end = newTime,
                     !.drags = Append(@, [time |-> newTime, accepted |-> TRUE])]
             ELSE [sought EXCEPT
                     !.drags = Append(@, [time |-> newTime, accepted |-> FALSE])]

\* A faulty handleMarkerDrag: an accepted candidate does not seek the video.
handleMarkerDragWithoutSeek(c, clientX, left, width, acc) ==
  IF ~isDraggingRef \/ activeMarkerRef = NoMarker
  THEN acc
  ELSE
    LET newTime == NewTime(clientX, left, width, c.videoDuration)
        accepted == [acc EXCEPT
                       !.drags = Append(@, [time |-> newTime, accepted |-> TRUE])]
        rejected == [acc EXCEPT
                       !.drags = Append(@, [time |-> newTime, accepted |-> FALSE])]
    IN  IF activeMarkerRef = "start"
        THEN IF LessThan(newTime, c.cropEndTime)
             THEN [accepted EXCEPT !.start = newTime]
             ELSE rejected
        ELSE IF GreaterThan(newTime, c.cropStartTime)
             THEN [accepted EXCEPT !.end = newTime]
             ELSE rejected

\* One run of the handleMarkerDrag of closure c on a mousemove event. acc holds
\* the values the handlers of this event have set so far (the last set wins).
\* timelineRef.current and videoRef.current are set for as long as the
\* component is mounted, so the guard reads the two drag refs only.
handleMarkerDrag(c, clientX, left, width, acc) ==
  IF ~isDraggingRef \/ activeMarkerRef = NoMarker
  THEN acc
  ELSE
    LET newTime == NewTime(clientX, left, width, c.videoDuration)
        accepted == [acc EXCEPT
                       !.drags = Append(@, [time |-> newTime, accepted |-> TRUE]),
                       !.seeks = Append(@, newTime)]
        rejected == [acc EXCEPT
                       !.drags = Append(@, [time |-> newTime, accepted |-> FALSE])]
    IN  IF activeMarkerRef = "start"
        THEN IF LessThan(newTime, c.cropEndTime)
             THEN [accepted EXCEPT !.start = newTime]
             ELSE rejected
        ELSE IF GreaterThan(newTime, c.cropStartTime)
             THEN [accepted EXCEPT !.end = newTime]
             ELSE rejected

\* The document dispatches a mousemove to its listeners in registration order.
RECURSIVE DispatchMousemove(_, _, _, _, _)
DispatchMousemove(listeners, clientX, left, width, acc) ==
  IF listeners = <<>> THEN acc
  ELSE DispatchMousemove(Tail(listeners), clientX, left, width,
                         handleMarkerDrag(Head(listeners), clientX, left, width, acc))

\* ----------------------------------------------------- handleMarkerMouseUp
\* A faulty handleMarkerMouseUp: the mousemove listener is not removed.
handleMarkerMouseUpKeepsMousemove(c, acc) ==
  [acc EXCEPT
     !.dragging = FALSE,
     !.marker = NoMarker,
     !.upL = RemoveEventListener(@, c.id)]

\* One run of the handleMarkerMouseUp of closure c: it clears the refs and
\* removes the handleMarkerDrag and handleMarkerMouseUp of its own render.
handleMarkerMouseUp(c, acc) ==
  [acc EXCEPT
     !.dragging = FALSE,
     !.marker = NoMarker,
     !.removed = @ + (Len(acc.moveL) - Len(RemoveEventListener(acc.moveL, c.id))),
     !.moveL = RemoveEventListener(@, c.id),
     !.upL = RemoveEventListener(@, c.id)]

\* The document dispatches a mouseup to the listeners registered when it fired.
RECURSIVE DispatchMouseup(_, _)
DispatchMouseup(listeners, acc) ==
  IF listeners = <<>> THEN acc
  ELSE DispatchMouseup(Tail(listeners), handleMarkerMouseUp(Head(listeners), acc))

\* ------------------------------------------------------------------ state
Init ==
  /\ cropMode = FALSE
  /\ cropStartTime = 0
  /\ cropEndTime = 0
  /\ videoDuration = 0
  /\ dynamicThumbnailCount = 100
  /\ dynamicWaveformCount = 100
  /\ isDraggingRef = FALSE
  /\ activeMarkerRef = NoMarker
  /\ metadataLoaded = FALSE
  /\ render = 0
  /\ mousemoveListeners = <<>>
  /\ mouseupListeners = <<>>
  /\ lastEvent = Event("mount", NoMarker, <<>>, <<>>, 0, <<>>)

\* A state change makes React render again, creating new handler functions.
Rerender(moveL, upL) ==
  render' = IF reactState' # reactState THEN NewRender(moveL, upL) ELSE render

\* ----------------------------------------------------------------- render
\* A faulty thumbnail strip: frame_data is rendered even when it is empty.
FrameThumbnailsOfEmptyData(frame_data) ==
  IF frame_data.present THEN frame_data.length ELSE dynamicThumbnailCount

\* The number of frame-thumbnail elements rendered for args.frame_data.
FrameThumbnails(frame_data) ==
  IF frame_data.present /\ frame_data.length > 0
  THEN frame_data.length
  ELSE dynamicThumbnailCount

\* A faulty waveform: the synthetic bars are rendered whatever was supplied.
WaveformBarsIgnoresData(waveform_data) ==
  dynamicWaveformCount

\* The number of waveform-bar elements rendered for args.waveform_data.
WaveformBars(waveform_data) ==
  IF waveform_data.present /\ waveform_data.length > 0
  THEN waveform_data.length
  ELSE dynamicWaveformCount

\* ---------------------------------------------------------------- actions
\* The video's loadedmetadata listener; d is video.duration in seconds.
LoadedMetadata(d) ==
  /\ ~metadataLoaded
  /\ metadataLoaded' = TRUE
  /\ videoDuration' = d * TicksPerSecond
  /\ dynamicThumbnailCount' =
       MathMin(300, MathMax(50, MathCeilDiv(d * TicksPerSecond, 3 * TicksPerSecond)))
  /\ dynamicWaveformCount' =
       MathMin(1000, MathMax(100, MathCeilDiv(d * TicksPerSecond * 2, TicksPerSecond)))
  /\ lastEvent' = Event("loadedmetadata", NoMarker, <<>>, <<>>, 0, <<>>)
  /\ UNCHANGED <<cropMode, cropStartTime, cropEndTime, isDraggingRef,
                 activeMarkerRef, mousemoveListeners,
                 mouseupListeners>>
  /\ Rerender(mousemoveListeners, mouseupListeners)

\* updateAudioData, once per animation frame after the metadata has loaded:
\* setAudioData stores a new array, so the component renders again.
UpdateAudioData ==
  /\ metadataLoaded
  /\ render' = NewRender(mousemoveListeners, mouseupListeners)
  /\ lastEvent' = Event("audioframe", NoMarker, <<>>, <<>>, 0, <<>>)
  /\ UNCHANGED <<reactState, isDraggingRef, activeMarkerRef, metadataLoaded,
                 mousemoveListeners, mouseupListeners>>

\* A faulty handleToggleCrop: the defaults are set only when no interval is left.
handleToggleCropKeepsInterval ==
  /\ ~cropMode
  /\ IF cropStartTime = 0 /\ cropEndTime = 0
     THEN /\ cropStartTime' = TicksPerSecond
          /\ cropEndTime' = MathMax(videoDuration - TicksPerSecond,
                                    (videoDuration * 3) \div 4)
     ELSE UNCHANGED <<cropStartTime, cropEndTime>>
  /\ cropMode' = ~cropMode
  /\ lastEvent' = Event("toggle", NoMarker, <<>>, <<>>, 0, <<>>)
  /\ UNCHANGED <<videoDuration, dynamicThumbnailCount, dynamicWaveformCount,
                 isDraggingRef, activeMarkerRef, metadataLoaded,
                 mousemoveListeners, mouseupListeners>>
  /\ Rerender(mousemoveListeners, mouseupListeners)

\* "Modo de Corte", rendered only while crop mode is off.
handleToggleCrop ==
  /\ ~cropMode
  /\ IF ~cropMode
     THEN /\ cropStartTime' = TicksPerSecond
          /\ cropEndTime' = MathMax(videoDuration - TicksPerSecond,
                                    (videoDuration * 3) \div 4)
     ELSE UNCHANGED <<cropStartTime, cropEndTime>>
  /\ cropMode' = ~cropMode
  /\ lastEvent' = Event("toggle", NoMarker, <<>>, <<>>, 0, <<>>)
  /\ UNCHANGED <<videoDuration, dynamicThumbnailCount, dynamicWaveformCount,
                 isDraggingRef, activeMarkerRef, metadataLoaded, mousemoveListeners, mouseupListeners>>
  /\ Rerender(mousemoveListeners, mouseupListeners)

\* A faulty handleCropApply: setCropMode(false) is missing.
handleCropApplyKeepsCropMode ==
  /\ cropMode
  /\ lastEvent' = Event("apply", NoMarker, <<>>, <<>>, 0,
                        <<[start |-> cropStartTime, end |-> cropEndTime,
                           shouldRefreshTaskList |-> TRUE]>>)
  /\ UNCHANGED <<reactState, isDraggingRef, activeMarkerRef, metadataLoaded,
                 render, mousemoveListeners, mouseupListeners>>

\* "Aplicar Corte", rendered only while crop mode is on.
handleCropApply ==
  /\ cropMode
  /\ cropMode' = FALSE
  /\ lastEvent' = Event("apply", NoMarker, <<>>, <<>>, 0,
                        <<[start |-> cropStartTime, end |-> cropEndTime,
                           shouldRefreshTaskList |-> TRUE]>>)
  /\ UNCHANGED <<cropStartTime, cropEndTime, videoDuration,
                 dynamicThumbnailCount, dynamicWaveformCount, isDraggingRef,
                 activeMarkerRef, metadataLoaded, mousemoveListeners, mouseupListeners>>
  /\ Rerender(mousemoveListeners, mouseupListeners)

\* A faulty cancel: it sends the interval to the host as apply does.
CancelCropEmits ==
  /\ cropMode
  /\ cropMode' = FALSE
  /\ lastEvent' = Event("cancel", NoMarker, <<>>, <<>>, 0,
                        <<[start |-> cropStartTime, end |-> cropEndTime,
                           shouldRefreshTaskList |-> TRUE]>>)
  /\ UNCHANGED <<cropStartTime, cropEndTime, videoDuration,
                 dynamicThumbnailCount, dynamicWaveformCount, isDraggingRef,
                 activeMarkerRef, metadataLoaded,
                 mousemoveListeners, mouseupListeners>>
  /\ Rerender(mousemoveListeners, mouseupListeners)

\* "Cancelar", rendered only while crop mode is on.
CancelCrop ==
  /\ cropMode
  /\ cropMode' = FALSE
  /\ lastEvent' = Event("cancel", NoMarker, <<>>, <<>>, 0, <<>>)
  /\ UNCHANGED <<cropStartTime, cropEndTime, videoDuration,
                 dynamicThumbnailCount, dynamicWaveformCount, isDraggingRef,
                 activeMarkerRef, metadataLoaded, mousemoveListeners, mouseupListeners>>
  /\ Rerender(mousemoveListeners, mouseupListeners)

\* mousedown on a crop marker (the markers are rendered only in crop mode).
handleMarkerMouseDown(markerType) ==
  /\ cropMode
  /\ render \in ListenerIds(mousemoveListeners) \/ Len(mousemoveListeners) < MaxListeners
  /\ isDraggingRef' = TRUE
  /\ activeMarkerRef' = markerType
  /\ mousemoveListeners' = AddEventListener(mousemoveListeners, Closure)
  /\ mouseupListeners' = AddEventListener(mouseupListeners, Closure)
  /\ lastEvent' = Event("mousedown", markerType, <<>>, <<>>, 0, <<>>)
  /\ UNCHANGED <<reactState, metadataLoaded, render>>

\* A mousemove on the document, handled by every registered handleMarkerDrag.
MouseMove(clientX, left, width) ==
  LET acc == DispatchMousemove(mousemoveListeners, clientX, left, width,
                               [start |-> cropStartTime, end |-> cropEndTime,
                                drags |-> <<>>, seeks |-> <<>>])
  IN  /\ cropStartTime' = acc.start
      /\ cropEndTime' = acc.end
      /\ lastEvent' = Event("mousemove", activeMarkerRef, acc.drags, acc.seeks, 0, <<>>)
      /\ UNCHANGED <<cropMode, videoDuration, dynamicThumbnailCount,
                     dynamicWaveformCount, isDraggingRef, activeMarkerRef,
                     metadataLoaded, mousemoveListeners, mouseupListeners>>
      /\ Rerender(mousemoveListeners, mouseupListeners)

\* A mouseup on the document, handled by every registered handleMarkerMouseUp.
MouseUp ==
  LET acc == DispatchMouseup(mouseupListeners,
                             [dragging |-> isDraggingRef, marker |-> activeMarkerRef,
                              moveL |-> mousemoveListeners, upL |-> mouseupListeners,
                              removed |-> 0])
  IN  /\ isDraggingRef' = acc.dragging
      /\ activeMarkerRef' = acc.marker
      /\ mousemoveListeners' = acc.moveL
      /\ mouseupListeners' = acc.upL
      /\ lastEvent' = Event("mouseup", activeMarkerRef, <<>>, <<>>, acc.removed, <<>>)
      /\ UNCHANGED <<reactState, metadataLoaded, render>>

\* A faulty double click: both markers are bound to the start time.
handleMarkerDoubleClickSeeksStart(markerType) ==
  /\ cropMode
  /\ lastEvent' = Event("dblclick", markerType, <<>>, <<cropStartTime>>, 0, <<>>)
  /\ UNCHANGED <<reactState, isDraggingRef, activeMarkerRef, metadataLoaded,
                 render, mousemoveListeners, mouseupListeners>>

\* Double click on a crop marker: seek the video to that marker's time.
handleMarkerDoubleClick(markerType) ==
  /\ cropMode
  /\ lastEvent' = Event("dblclick", markerType, <<>>,
                        <<IF markerType = "start" THEN cropStartTime ELSE cropEndTime>>, 0, <<>>)
  /\ UNCHANGED <<reactState, isDraggingRef, activeMarkerRef, metadataLoaded,
                 render, mousemoveListeners, mouseupListeners>>

Next ==
  \/ \E d \in Durations : LoadedMetadata(d)
  \/ UpdateAudioData
  \/ handleToggleCrop
  \/ handleCropApply
  \/ CancelCrop
  \/ \E m \in Markers : handleMarkerMouseDown(m)
  \/ \E x \in ClientXs, l \in Lefts, w \in Widths : MouseMove(x, l, w)
  \/ MouseUp
  \/ \E m \in Markers : handleMarkerDoubleClick(m)

Spec == Init /\ [][Next]_vars

\* The component without the drag events, for every whole duration up to
\* MaxMetaDuration: what the thumbnail and waveform counts depend on.
NextMeta ==
  \/ \E d \in MetaDurations : LoadedMetadata(d)
  \/ UpdateAudioData
  \/ handleToggleCrop
  \/ handleCropApply
  \/ CancelCrop

MetaSpec == Init /\ [][NextMeta]_vars

\* ----------------------------------------------------------------- claims
\* The interval is well formed for the timeline's duration.
IntervalWellFormed ==
  /\ 0 <= cropStartTime
  /\ cropStartTime < cropEndTime
  /\ cropEndTime <= videoDuration

\* Every candidate of the event was rejected.
AllRejected(event) ==
  \A i \in 1..Len(event.drags) : ~event.drags[i].accepted

\* The candidates of the event that were accepted, in order.
AcceptedTimes(event) ==
  SelectSeq(event.drags, LAMBDA d : d.accepted)

\* C1: in every reachable state in which crop mode is active the interval
\* satisfies 0 <= start < end <= duration.
C1_CropIntervalInvariant ==
  cropMode => IntervalWellFormed

\* C2: for every duration D > 0, entering crop mode yields an interval with
\* 0 <= start < end <= D.
C2_EnterCropYieldsValidInterval ==
  (lastEvent.type = "toggle" /\ videoDuration > 0) => IntervalWellFormed

\* C3: from an interval with start < end, every drag transition (a mousemove
\* handled in any drag session) leaves start < end.
C3_DragKeepsStartBeforeEnd ==
  [][(lastEvent'.type = "mousemove" /\ cropStartTime < cropEndTime)
       => cropStartTime' < cropEndTime']_vars

\* C4: a drag candidate t is accepted for the start marker exactly when t is
\* less than the interval's current end, and for the end marker exactly when t
\* is greater than the interval's current start; on acceptance the active
\* marker's boundary becomes t and the other boundary is unchanged.
C4_DragAcceptRule ==
  [][lastEvent'.type = "mousemove" =>
       /\ \A i \in 1..Len(lastEvent'.drags) :
            LET d == lastEvent'.drags[i]
            IN  d.accepted <=>
                  IF lastEvent'.marker = "start"
                  THEN LessThan(d.time, cropEndTime)
                  ELSE GreaterThan(d.time, cropStartTime)
       /\ LET times == AcceptedTimes(lastEvent')
          IN  times # <<>> =>
                IF lastEvent'.marker = "start"
                THEN /\ cropStartTime' = times[Len(times)].time
                     /\ cropEndTime' = cropEndTime
                ELSE /\ cropEndTime' = times[Len(times)].time
                     /\ cropStartTime' = cropStartTime]_vars

\* C5: a mousemove whose candidate is rejected leaves start and end unchanged
\* and does not seek the video.
C5_RejectedDragChangesNothing ==
  [][(lastEvent'.type = "mousemove" /\ AllRejected(lastEvent'))
       => /\ cropStartTime' = cropStartTime
          /\ cropEndTime' = cropEndTime
          /\ lastEvent'.seeks = <<>>]_vars

\* A candidate for the start marker has been rejected.
C5_Witness ==
  /\ lastEvent.type = "mousemove"
  /\ lastEvent.marker = "start"
  /\ lastEvent.drags # <<>>
  /\ AllRejected(lastEvent)
  /\ cropMode

\* C6: an apply taken in the cropping state emits exactly one value, equal to
\* {start: the current start, end: the current end, shouldRefreshTaskList:
\* true}, and leaves crop mode.
C6_ApplyEmitsIntervalOnce ==
  [][lastEvent'.type = "apply" =>
       /\ cropMode
       /\ lastEvent'.emits = <<[start |-> cropStartTime, end |-> cropEndTime,
                                shouldRefreshTaskList |-> TRUE]>>
       /\ cropMode' = FALSE]_vars

\* An interval moved by a drag has been applied.
C6_Witness ==
  /\ lastEvent.type = "apply"
  /\ ~cropMode
  /\ Len(lastEvent.emits) = 1
  /\ lastEvent.emits[1].start # TicksPerSecond
  /\ lastEvent.emits[1].start < lastEvent.emits[1].end

\* C7: only an apply taken in the cropping state passes a value to the host;
\* every other event emits nothing.
C7_OnlyApplyEmits ==
  [][lastEvent'.emits # <<>> => (lastEvent'.type = "apply" /\ cropMode)]_vars

\* Crop mode has been cancelled, and nothing was emitted.
C7_Witness ==
  /\ lastEvent.type = "cancel"
  /\ ~cropMode
  /\ lastEvent.emits = <<>>

\* C8: entering crop mode while the duration is 0 or unknown sets start and
\* end both to 0.
C8_EnterCropWithoutDurationCollapses ==
  (lastEvent.type = "toggle" /\ videoDuration = 0)
    => (cropStartTime = 0 /\ cropEndTime = 0)

\* C9: at most one mousemove listener and one mouseup listener are registered
\* in every reachable state.
C9_AtMostOneDragSession ==
  /\ Len(mousemoveListeners) <= 1
  /\ Len(mouseupListeners) <= 1

\* C10: a mouseup during a drag session ends it: no marker is active, the
\* dragging flag is false and the session's listeners are removed; from then
\* on only a mousedown on a marker starts a session, and until it does a
\* mousemove changes neither start nor end.
C10_MouseUpEndsSession ==
  [][/\ (lastEvent'.type = "mouseup" /\ isDraggingRef)
          => /\ isDraggingRef' = FALSE
             /\ activeMarkerRef' = NoMarker
             /\ mousemoveListeners' = <<>>
             /\ mouseupListeners' = <<>>
     /\ (~isDraggingRef /\ isDraggingRef') => lastEvent'.type = "mousedown"
     /\ (lastEvent'.type = "mousemove" /\ ~isDraggingRef)
          => /\ cropStartTime' = cropStartTime
             /\ cropEndTime' = cropEndTime]_vars

\* A mouseup has ended a drag session in which no candidate had been accepted.
C10_Witness ==
  /\ lastEvent.type = "mouseup"
  /\ lastEvent.removed >= 1
  /\ ~isDraggingRef
  /\ activeMarkerRef = NoMarker
  /\ mousemoveListeners = <<>>
  /\ cropMode
  /\ cropStartTime = TicksPerSecond

\* C13: entering crop mode with duration D sets start = 1.0 and end =
\* max(D - 1.0, 0.75 * D), whatever interval earlier drags, cancels or applies
\* left: D - 1.0 from D = 4 s on, 0.75 * D below (120 s gives 119, 10 s gives 9).
C13_EnterCropSetsDefaults ==
  lastEvent.type = "toggle" =>
    /\ cropMode
    /\ cropStartTime = TicksPerSecond
    /\ 4 * cropEndTime = IF videoDuration >= 4 * TicksPerSecond
                         THEN 4 * (videoDuration - TicksPerSecond)
                         ELSE 3 * videoDuration
    /\ videoDuration = 120 * TicksPerSecond => cropEndTime = 119 * TicksPerSecond
    /\ videoDuration = 10 * TicksPerSecond => cropEndTime = 9 * TicksPerSecond

\* Crop mode has been entered again for a 120 s video while a drag session
\* of an earlier cropping is still open, holding another interval.
C13_Witness ==
  /\ lastEvent.type = "toggle"
  /\ videoDuration = 120 * TicksPerSecond
  /\ cropStartTime = TicksPerSecond
  /\ cropEndTime = 119 * TicksPerSecond
  /\ \E i \in 1..Len(mousemoveListeners) :
       mousemoveListeners[i].cropStartTime # TicksPerSecond

\* C11: for a timeline of width > 0, every candidate a mousemove of an active
\* drag session derives is clamp((clientX - left) / width, 0, 1) times the
\* timeline's current duration, and so lies in [0, duration].
C11_CandidateFromCurrentDuration ==
  [][\A x \in ClientXs, l \in Lefts, w \in Widths \ {0} :
       (MouseMove(x, l, w) /\ isDraggingRef) =>
         \A i \in 1..Len(lastEvent'.drags) :
           LET t == lastEvent'.drags[i].time
               offset == x - l
               clamped == IF offset < 0 THEN 0
                          ELSE IF offset > w THEN w ELSE offset
           IN  /\ t * w = clamped * videoDuration
               /\ 0 <= t
               /\ t <= videoDuration]_vars

\* C12: with a timeline width of 0 a mousemove of a drag session is a no-op:
\* the candidate is rejected and neither start nor end changes.
C12_ZeroWidthMoveIsNoOp ==
  [][\A x \in ClientXs, l \in Lefts :
       (MouseMove(x, l, 0) /\ isDraggingRef) =>
         /\ AllRejected(lastEvent')
         /\ cropStartTime' = cropStartTime
         /\ cropEndTime' = cropEndTime]_vars

\* ceil(a / b) and clamp(v, lo, hi) as the specification writes them.
CeilOf(a, b) == CHOOSE k \in 0..a : (k - 1) * b < a /\ a <= k * b
Clamp(v, lo, hi) == IF v < lo THEN lo ELSE IF v > hi THEN hi ELSE v

\* No array was supplied: it is absent or empty.
NotSupplied(data) == ~data.present \/ data.length = 0

\* The timeline's duration in whole seconds.
DurationSeconds == videoDuration \div TicksPerSecond

\* C14 as stated: whenever no frame-thumbnail sequence is supplied, the number
\* of placeholder thumbnails equals clamp(ceil(duration / 3), 50, 300) in every
\* state, also before the metadata has loaded.
C14_PlaceholderThumbnailsAlways ==
  \A frame_data \in ArgData :
    NotSupplied(frame_data) =>
      FrameThumbnails(frame_data) = Clamp(CeilOf(DurationSeconds, 3), 50, 300)

\* C14 as amended: whenever no frame-thumbnail sequence is supplied, the number
\* of placeholder thumbnails is clamp(ceil(duration / 3), 50, 300) once the
\* metadata has loaded, and 100 before.
C14_PlaceholderThumbnails ==
  \A frame_data \in ArgData :
    NotSupplied(frame_data) =>
      FrameThumbnails(frame_data) =
        IF metadataLoaded
        THEN Clamp(CeilOf(DurationSeconds, 3), 50, 300)
        ELSE 100

\* A 599 s video has loaded and 200 placeholder thumbnails are shown.
C14_Witness ==
  /\ metadataLoaded
  /\ DurationSeconds = 599
  /\ FrameThumbnails([present |-> TRUE, length |-> 0]) = 200

\* C15: whenever no waveform sample sequence is supplied, the number of
\* synthetic bars equals clamp(ceil(duration * 2), 100, 1000) (100 for 50 s);
\* a non-empty sequence is shown with one bar per sample.
C15_WaveformBars ==
  \A waveform_data \in ArgData :
    /\ WaveformBars(waveform_data) =
         IF NotSupplied(waveform_data)
         THEN Clamp(CeilOf(DurationSeconds * 2, 1), 100, 1000)
         ELSE waveform_data.length
    /\ (DurationSeconds = 50 /\ NotSupplied(waveform_data))
         => WaveformBars(waveform_data) = 100

\* A 50 s video has loaded and 100 synthetic bars are shown.
C15_Witness ==
  /\ metadataLoaded
  /\ DurationSeconds = 50
  /\ WaveformBars([present |-> FALSE, length |-> 0]) = 100

\* The time of the marker named.
MarkerTime(markerType) ==
  IF markerType = "start" THEN cropStartTime ELSE cropEndTime

\* C16: a double click on a marker in the cropping state changes neither
\* start nor end nor the crop mode; its only effect is to set the video's
\* playback position to that marker's current time.
C16_DoubleClickOnlySeeks ==
  [][lastEvent'.type = "dblclick" =>
       /\ cropMode
       /\ UNCHANGED <<reactState, isDraggingRef, activeMarkerRef,
                      mousemoveListeners, mouseupListeners>>
       /\ lastEvent'.seeks = <<MarkerTime(lastEvent'.marker)>>
       /\ lastEvent'.emits = <<>>]_vars

\* The end marker, moved by a drag before, has been double-clicked.
C16_Witness ==
  /\ lastEvent.type = "dblclick"
  /\ lastEvent.marker = "end"
  /\ cropMode
  /\ cropEndTime # cropStartTime
  /\ cropEndTime = videoDuration
  /\ lastEvent.seeks = <<cropEndTime>>

C18_IdleIntervalUntouched ==
  [][(~cropMode /\ lastEvent'.type # "toggle")
       => /\ cropStartTime' = cropStartTime
          /\ cropEndTime' = cropEndTime]_vars

\* C19: every value emitted to the host satisfies 0 <= start < end <=
\* duration of the video.
C19_EmittedIntervalWellFormed ==
  \A i \in 1..Len(lastEvent.emits) :
    /\ 0 <= lastEvent.emits[i].start
    /\ lastEvent.emits[i].start < lastEvent.emits[i].end
    /\ lastEvent.emits[i].end <= videoDuration

====
